---- MODULE Spec2Model ----
(***************************************************************************)
(* Model of cramdown's scheduling core (src-tauri/src/note.rs, card.rs):   *)
(* the scheduler score_card, the due filter, the markdown field codec and  *)
(* the deck directory (note files and review logs) with the commands that  *)
(* read and write it.                                                       *)
(*                                                                         *)
(* Strings are sequences of one-character strings, so that the regular     *)
(* expressions and the trimming of the code can be computed.  Timestamps   *)
(* of the scheduler are whole minutes in 0..MAX_UTC; the wall clock of the *)
(* deck commands is whole seconds.  Option<T> is a sequence of length 0    *)
(* (None) or 1 (Some).                                                     *)
(***************************************************************************)
EXTENDS Integers, Sequences, FiniteSets, TLC

VARIABLES
    pc,         \* position of the modelled call sequence
    card,       \* scheduler: the Card given to score_card
    time,       \* scheduler: the `time` argument
    score,      \* scheduler: the ReviewScore argument
    review,     \* scheduler: the Review returned (None before the call)
    cards,      \* due filter: the cards reaching the filter, in order
    due_cards,  \* due filter: the cards the filter kept
    fields,     \* codec: the Fields mapping (key -> body)
    order,      \* codec: the iteration order of the HashMap
    md,         \* codec: the serialized text
    parsed,     \* codec: the mapping parsed back
    files,      \* deck: file name -> content, the regular files of the deck
    reviews,    \* deck: review-log file name -> the chunks appended to it
    clock,      \* deck: wall clock, whole seconds since the epoch
    ret,        \* deck: what the last command returned
    io,         \* deck: outcome of the last command's file operation
    created,    \* deck (history): the notes create_note wrote, in call order
    calls       \* deck (history): the review_card calls that returned Ok, in order

vars == <<pc, card, time, score, review, cards, due_cards, fields, order, md,
          parsed, files, reviews, clock, ret, io, created, calls>>

scoreVars == <<card, time, score, review>>
dueVars   == <<cards, due_cards>>
codecVars == <<fields, order, md, parsed>>
deckVars  == <<files, reviews, clock, ret, io, created, calls>>

----------------------------------------------------------------------------
(* Option<T> *)
None == << >>
Some(v) == << v >>
IsSome(o) == Len(o) = 1
Unwrap(o) == o[1]

(* Bounds of the model *)
MaxDays == 6        \* the representable timestamps span MaxDays days
MaxInterval == 2    \* intervals 0..MaxInterval are tried
MaxSteps == 3       \* steps 0..MaxSteps are tried

MinutesPerDay == 24 * 60
MAX_UTC == MaxDays * MinutesPerDay

\* Timestamps tried: around every day boundary of the representable range, so
\* that each of +1 minute, +1 day and +4 days both fits and overflows.
Times == { t \in 0..MAX_UTC : t % MinutesPerDay \in {0, 1, MinutesPerDay - 1} }

----------------------------------------------------------------------------
(* Scheduler *)
CardState == {"New", "Graduated", "Relearning"}
ReviewScore == {"Again", "Hard", "Good", "Easy"}

EASY_INTERVAL == 4
GRADUATION_INTERVAL == 1
AGAIN_STEPS == 2

Duration_days(n) == n * MinutesPerDay
Duration_minutes(n) == n

\* DateTime::checked_add_signed: None when the sum is not representable
checked_add_signed(t, d) ==
    IF t + d >= 0 /\ t + d <= MAX_UTC THEN Some(t + d) ELSE None

\* `if let Some(due) = time.checked_add_signed(d) { review.due = due; }`
set_due(r, t, d) ==
    IF IsSome(checked_add_signed(t, d))
    THEN [r EXCEPT !.due = Unwrap(checked_add_signed(t, d))]
    ELSE r

\* the Review built before the match; utc_now is what Utc::now() returned
initial_review(c, s, utc_now) ==
    [ note_id       |-> c.note_id,
      card_num      |-> c.card_num,
      due           |-> utc_now,
      interval      |-> c.interval,
      ease          |-> c.ease,
      last_interval |-> c.interval,
      state         |-> "New",
      score         |-> s,
      steps         |-> c.steps ]

\* score_easy without `review.steps = 0`
score_easy_keeps_steps(r, t) ==
    set_due([r EXCEPT !.state = "Graduated", !.interval = EASY_INTERVAL],
            t, Duration_days(EASY_INTERVAL))

\* CardState::New, ReviewScore::Easy
score_easy(r, t) ==
    [ set_due([r EXCEPT !.state = "Graduated", !.interval = EASY_INTERVAL],
              t, Duration_days(EASY_INTERVAL))
      EXCEPT !.steps = 0 ]

\* score_again without `review.steps = AGAIN_STEPS`
score_again_keeps_steps(r, t) ==
    set_due(r, t, Duration_minutes(1))

\* CardState::New, ReviewScore::Again and ReviewScore::Hard (the same code twice)
score_again(r, t) ==
    set_due([r EXCEPT !.steps = AGAIN_STEPS], t, Duration_minutes(1))

\* score_good with `card.steps < 1` for `card.steps <= 1`
score_good_graduates_late(c, r, t) ==
    IF c.steps < 1
    THEN set_due([r EXCEPT !.state = "Graduated", !.steps = 0],
                 t, Duration_days(GRADUATION_INTERVAL))
    ELSE [ set_due(r, t, Duration_minutes(1)) EXCEPT !.steps = r.steps - 1 ]

\* CardState::New, ReviewScore::Good
score_good(c, r, t) ==
    IF c.steps <= 1
    THEN set_due([r EXCEPT !.state = "Graduated", !.steps = 0],
                 t, Duration_days(GRADUATION_INTERVAL))
    ELSE [ set_due(r, t, Duration_minutes(1)) EXCEPT !.steps = r.steps - 1 ]

score_card(c, t, s, utc_now) ==
    LET r == initial_review(c, s, utc_now) IN
    IF c.state = "New"
    THEN CASE s = "Easy"  -> score_easy(r, t)
           [] s = "Again" -> score_again(r, t)
           [] s = "Hard"  -> score_again(r, t)
           [] s = "Good"  -> score_good(c, r, t)
    ELSE r

----------------------------------------------------------------------------
(* Strings *)
MaxKeyLen == 1      \* field names of up to MaxKeyLen characters are tried
MaxBodyLen == 4     \* field bodies of up to MaxBodyLen characters are tried
MaxFields == 2      \* mappings of up to MaxFields fields are tried

NL == "\n"
Alphabet == {"#", " ", NL, "F"}
Whitespace == {" ", NL}

StringsUpTo(n) == UNION { [1..k -> Alphabet] : k \in 0..n }

\* the subsets of S with at most n elements
SubsetsUpTo(S, n) ==
    UNION { { { f[i] : i \in 1..k } : f \in [1..k -> S] } : k \in 0..n }

\* str::split("\n"): the pieces between the separators, one more than there
\* are separators
RECURSIVE split_from(_, _, _)
split_from(s, i, cur) ==
    IF i > Len(s) THEN << cur >>
    ELSE IF s[i] = NL THEN << cur >> \o split_from(s, i + 1, << >>)
    ELSE split_from(s, i + 1, Append(cur, s[i]))

split(s) == split_from(s, 1, << >>)

\* str::trim: without the leading and the trailing whitespace
RECURSIVE trim_start(_)
trim_start(s) ==
    IF s # << >> /\ Head(s) \in Whitespace THEN trim_start(Tail(s)) ELSE s

RECURSIVE trim_end(_)
trim_end(s) ==
    IF s # << >> /\ s[Len(s)] \in Whitespace
    THEN trim_end(SubSeq(s, 1, Len(s) - 1))
    ELSE s

trim(s) == trim_end(trim_start(s))

----------------------------------------------------------------------------
(* Field codec *)

\* HashMap::insert
insert(m, k, v) == [ x \in (DOMAIN m) \cup {k} |-> IF x = k THEN v ELSE m[x] ]
EmptyMap == << >>

\* Regex "# (.*)" on one line: the leftmost "# " wherever it stands in the
\* line; group 1 is the rest of the line.  None when the line has no "# ".
heading_positions(line) ==
    { i \in 1..(Len(line) - 1) : line[i] = "#" /\ line[i + 1] = " " }

heading_captures(line) ==
    IF heading_positions(line) = {} THEN None
    ELSE LET i == CHOOSE p \in heading_positions(line) :
                      \A q \in heading_positions(line) : p <= q
         IN Some(SubSeq(line, i + 2, Len(line)))

\* one iteration of the loop over the lines; st is the loop's state
parse_line(st, line) ==
    LET heading == heading_captures(line) IN
    IF IsSome(heading)
    THEN [ fields        |-> IF IsSome(st.current_field)
                             THEN insert(st.fields, Unwrap(st.current_field),
                                         trim(st.current_str))
                             ELSE st.fields,
           current_field |-> Some(Unwrap(heading)),
           current_str   |-> << >> ]
    ELSE [ st EXCEPT !.current_str =
               IF st.current_str = << >> THEN line
               ELSE st.current_str \o << NL >> \o line ]

RECURSIVE parse_lines(_, _)
parse_lines(st, lines) ==
    IF lines = << >> THEN st
    ELSE parse_lines(parse_line(st, Head(lines)), Tail(lines))

parse_note_into_fields(text) ==
    LET st == parse_lines([ fields |-> EmptyMap, current_field |-> None,
                            current_str |-> << >> ], split(text))
    IN IF IsSome(st.current_field)
       THEN insert(st.fields, Unwrap(st.current_field), trim(st.current_str))
       ELSE st.fields

\* get_note_md; ord is the order in which the HashMap iterates its keys
RECURSIVE get_note_md(_, _)
get_note_md(m, ord) ==
    IF ord = << >> THEN << >>
    ELSE LET rest == get_note_md(m, SubSeq(ord, 1, Len(ord) - 1))
             field == ord[Len(ord)]
         IN rest \o << "#", " " >> \o field \o << NL >> \o m[field] \o << NL >>

\* the orders a HashMap with these keys may iterate in
Orders(keys) ==
    { o \in [1..Cardinality(keys) -> keys] :
        \A i, j \in 1..Cardinality(keys) : i # j => o[i] # o[j] }

----------------------------------------------------------------------------
(* Note store: paths *)
MaxTicks == 1       \* the wall clock advances at most MaxTicks seconds
MaxCreates == 2     \* at most MaxCreates create_note calls are recorded
MaxReviews == 2     \* at most MaxReviews review_card calls are recorded
FirstSecond == 9    \* the wall clock's first reading

Digit == << "0", "1", "2", "3", "4", "5", "6", "7", "8", "9" >>

\* u64::to_string: decimal digits, most significant first
RECURSIVE to_string(_)
to_string(n) ==
    IF n < 10 THEN << Digit[n + 1] >>
    ELSE to_string(n \div 10) \o << Digit[(n % 10) + 1] >>

DeckId == << "t", "e", "s", "t" >>
Basic == << "b", "a", "s", "i", "c" >>
Cloze == << "c", "l", "o", "z", "e" >>
Templates == { Basic, Cloze }

\* the file name under the deck's directory (one deck is modelled, so the
\* deck's own path is left out)
get_note_path(note) ==
    note.note_id \o << "_" >> \o note.template \o << ".", "m", "d" >>

\* the file name under the deck's reviews directory
get_review_path(note) ==
    note.note_id \o << ".", "j", "s", "o", "n", "l" >>

\* impl From<Card> for Note
note_from_card(c) ==
    [ note_id |-> c.note_id, deck_id |-> c.deck_id, template |-> c.template ]

\* Regex "([^_]*)?_?(.*).md": not anchored, leftmost match, greedy with
\* backtracking.  A match starting at the first character exists exactly
\* when some "md" has a character before it (both groups may be empty), and
\* then no later start is tried.  k1 is the length of group 1.
tail_lengths(s, q) ==
    \* lengths k of group 2 starting at index q with ".md" after it
    { k \in 0..Len(s) : q + k + 2 <= Len(s)
                        /\ s[q + k + 1] = "m" /\ s[q + k + 2] = "d" }

group1_lengths(s) ==
    { k \in 0..Len(s) :
        /\ \A i \in 1..k : s[i] # "_"
        /\ \/ (k < Len(s) /\ s[k + 1] = "_" /\ tail_lengths(s, k + 2) # {})
           \/ tail_lengths(s, k + 1) # {} }

Max(S) == CHOOSE x \in S : \A y \in S : y <= x

\* Regex::captures: None, or Some of groups 1 and 2
filename_captures(s) ==
    IF group1_lengths(s) = {} THEN None
    ELSE LET k1 == Max(group1_lengths(s))
             us == k1 < Len(s) /\ s[k1 + 1] = "_"
                   /\ tail_lengths(s, k1 + 2) # {}
             q  == IF us THEN k1 + 2 ELSE k1 + 1
             k2 == Max(tail_lengths(s, q))
         IN Some([ g1 |-> SubSeq(s, 1, k1), g2 |-> SubSeq(s, q, q + k2 - 1) ])

\* get_notes_from_paths; names are the regular files of the directory.  The
\* Vec is in directory order, which is not modelled: the result is a set.
get_notes_from_paths(deck, names) ==
    { [ deck_id  |-> deck,
        note_id  |-> Unwrap(filename_captures(f)).g1,
        template |-> Unwrap(filename_captures(f)).g2 ]
      : f \in { n \in names : IsSome(filename_captures(n)) } }

----------------------------------------------------------------------------
(* Due filter *)
MaxCards == 2       \* at most MaxCards cards reach the filter

\* due_filter with `due <= Utc::now()` for `due < Utc::now()`
due_filter_inclusive(x, utc_now) ==
    IF x.due = None THEN TRUE ELSE Unwrap(x.due) <= utc_now

\* the closure `|x| match x.due { None => true, Some(due) => due < Utc::now() }`
due_filter(x, utc_now) ==
    IF x.due = None THEN TRUE ELSE Unwrap(x.due) < utc_now

\* the Card built for a matching file name
card_from_captures(deck, c) ==
    [ deck_id  |-> deck,
      card_num |-> 1,
      due      |-> None,
      ease     |-> 200,
      interval |-> 100,
      state    |-> "New",
      steps    |-> 0,
      template |-> Basic,
      note_id  |-> c.g1 ]

filter_due(cs, utc_now) == { x \in cs : due_filter(x, utc_now) }

get_due_cards_from_paths(deck, names, utc_now) ==
    filter_due({ card_from_captures(deck, Unwrap(filename_captures(f)))
                 : f \in { n \in names : IsSome(filename_captures(n)) } },
               utc_now)

----------------------------------------------------------------------------
(* Values the variables of one part hold while another part runs *)
IdleScore == card = None /\ time = 0 /\ score = None /\ review = None
IdleDue   == cards = {} /\ due_cards = {}
IdleCodec == fields = EmptyMap /\ order = << >> /\ md = None /\ parsed = None
IdleDeck  == /\ files = EmptyMap /\ reviews = EmptyMap /\ clock = 0
             /\ ret = None /\ io = "Ok" /\ created = << >> /\ calls = << >>

----------------------------------------------------------------------------
(* The scheduler as a function of its inputs *)
TestNote == << "t", "e", "s", "t" >>

CardInputs ==
    [ note_id  : { TestNote },
      deck_id  : { DeckId },
      card_num : { 1 },
      interval : 0..MaxInterval,
      due      : { None, Some(0), Some(MAX_UTC) },
      ease     : { 200, 250 },
      state    : CardState,
      steps    : 0..MaxSteps,
      template : { Basic } ]

InitScore ==
    /\ pc = "score_card"
    /\ card \in CardInputs
    /\ time \in Times
    /\ score \in ReviewScore
    /\ review = None
    /\ IdleDue /\ IdleCodec /\ IdleDeck

\* one call of score_card; Utc::now() reads some instant of the wall clock
ScoreCard ==
    /\ pc = "score_card"
    /\ \E utc_now \in Times :
           review' = Some(score_card(card, time, score, utc_now))
    /\ pc' = "scored"
    /\ UNCHANGED <<card, time, score, dueVars, codecVars, deckVars>>

NextScore == ScoreCard
SpecScore == InitScore /\ [][NextScore]_vars

----------------------------------------------------------------------------
(* The due filter as a function of the cards and the instant *)
DueInputs ==
    [ note_id  : { << "9" >>, << "1", "0" >> },
      deck_id  : { DeckId },
      card_num : { 1 },
      interval : { 100 },
      due      : { None } \cup { Some(t) : t \in Times },
      ease     : { 200 },
      state    : { "New" },
      steps    : { 0 },
      template : { Basic } ]

InitDue ==
    /\ pc = "filter"
    /\ cards \in SubsetsUpTo(DueInputs, MaxCards)
    /\ time \in Times
    /\ due_cards = {}
    /\ card = None /\ score = None /\ review = None
    /\ IdleCodec /\ IdleDeck

\* the filter stage of get_due_cards_from_paths, Utc::now() reading `time`
FilterDue ==
    /\ pc = "filter"
    /\ due_cards' = filter_due(cards, time)
    /\ pc' = "filtered"
    /\ UNCHANGED <<scoreVars, cards, codecVars, deckVars>>

NextDue == FilterDue
SpecDue == InitDue /\ [][NextDue]_vars

----------------------------------------------------------------------------
(* The codec: serialize, then parse *)
KeyAlphabet == {"F", "B"}
KeyInputs == UNION { [1..k -> KeyAlphabet] : k \in 0..MaxKeyLen }
BodyInputs == StringsUpTo(MaxBodyLen)

FieldsInputs ==
    UNION { [ ks -> BodyInputs ] :
            ks \in SubsetsUpTo(KeyInputs, MaxFields) }

InitCodec ==
    /\ pc = "fields"
    /\ fields \in FieldsInputs
    /\ order \in Orders(DOMAIN fields)
    /\ md = None
    /\ parsed = None
    /\ IdleScore /\ IdleDue /\ IdleDeck

Serialize ==
    /\ pc = "fields"
    /\ md' = Some(get_note_md(fields, order))
    /\ pc' = "serialized"
    /\ UNCHANGED <<scoreVars, dueVars, fields, order, parsed, deckVars>>

Parse ==
    /\ pc = "serialized"
    /\ parsed' = Some(parse_note_into_fields(Unwrap(md)))
    /\ pc' = "parsed"
    /\ UNCHANGED <<scoreVars, dueVars, fields, order, md, deckVars>>

NextCodec == Serialize \/ Parse
SpecCodec == InitCodec /\ [][NextCodec]_vars

----------------------------------------------------------------------------
(* The deck directory and the commands on it *)
Front == << "F" >>
NoteFields == { [ k \in { Front } |-> << "F" >> ],
                [ k \in { Front } |-> << "#" >> ] }

ScoreInputs == { "Again", "Easy" }

InitDeck ==
    /\ pc = "deck"
    /\ files = EmptyMap
    /\ reviews = EmptyMap
    /\ clock = FirstSecond
    /\ ret = None
    /\ io = "Ok"
    /\ created = << >>
    /\ calls = << >>
    /\ IdleScore /\ IdleDue /\ IdleCodec

\* the wall clock advances between commands
tick ==
    /\ clock < FirstSecond + MaxTicks
    /\ clock' = clock + 1
    /\ UNCHANGED <<pc, scoreVars, dueVars, codecVars,
                   files, reviews, ret, io, created, calls>>

\* fs::write(path, text): Ok replaces the file's content; a failure is taken
\* to happen before the file is touched
fs_write(path, text, outcome) ==
    IF outcome = "Ok" THEN insert(files, path, text) ELSE files

\* the String both arms of the match on fs::write's result return
write_result(outcome) ==
    IF outcome = "Ok" THEN << >> ELSE << >>

create_note ==
    /\ pc = "deck"
    /\ Len(created) < MaxCreates
    /\ \E template \in Templates, fs \in NoteFields,
          outcome \in { "Ok", "Err" } :
         \E ord \in Orders(DOMAIN fs) :
           LET t    == to_string(clock)
               note == [ note_id  |-> t \o << "_" >> \o template,
                         deck_id  |-> DeckId,
                         template |-> template ]
           IN /\ files' = fs_write(get_note_path(note), get_note_md(fs, ord),
                                   outcome)
              /\ ret' = Some([ op |-> "create_note",
                               val |-> write_result(outcome) ])
              /\ io' = outcome
              /\ created' = IF outcome = "Ok"
                            THEN Append(created, note)
                            ELSE created
    /\ UNCHANGED <<pc, scoreVars, dueVars, codecVars, reviews, clock, calls>>

\* the notes a caller holds: those list_notes shows and those it created
KnownNotes ==
    get_notes_from_paths(DeckId, DOMAIN files)
        \cup { created[i] : i \in DOMAIN created }

update_note ==
    /\ pc = "deck"
    /\ \E note \in KnownNotes, fs \in NoteFields,
          outcome \in { "Ok", "Err" } :
         \E ord \in Orders(DOMAIN fs) :
           /\ files' = fs_write(get_note_path(note), get_note_md(fs, ord),
                                outcome)
           /\ ret' = Some([ op |-> "update_note",
                            val |-> write_result(outcome) ])
           /\ io' = outcome
    /\ UNCHANGED <<pc, scoreVars, dueVars, codecVars, reviews, clock,
                   created, calls>>

list_notes ==
    /\ pc = "deck"
    /\ \E outcome \in { "Ok", "Err" } :
         /\ io' = outcome
         /\ ret' = Some([ op  |-> "list_notes",
                          val |-> IF outcome = "Ok"
                                  THEN get_notes_from_paths(DeckId,
                                                            DOMAIN files)
                                  ELSE {} ])
    /\ UNCHANGED <<pc, scoreVars, dueVars, codecVars, files, reviews, clock,
                   created, calls>>

list_cards_to_review ==
    /\ pc = "deck"
    /\ \E outcome \in { "Ok", "Err" } :
         /\ io' = outcome
         /\ ret' = Some([ op  |-> "list_cards_to_review",
                          val |-> IF outcome = "Ok"
                                  THEN get_due_cards_from_paths(
                                           DeckId, DOMAIN files, clock)
                                  ELSE {} ])
    /\ UNCHANGED <<pc, scoreVars, dueVars, codecVars, files, reviews, clock,
                   created, calls>>

\* serde_json::to_vec(&card): one JSON object with the Card's fields and no
\* line terminator; the object is modelled by the record
to_vec(c) == << c >>

log_of(m, path) == IF path \in DOMAIN m THEN m[path] ELSE << >>

\* OpenOptions append+create, then write_all of the serialized *card*; the
\* score is not used.  A failure is taken to happen before any byte is
\* written.
review_card ==
    /\ pc = "deck"
    /\ Len(calls) < MaxReviews
    /\ \E c \in get_due_cards_from_paths(DeckId, DOMAIN files, clock),
          s \in ScoreInputs,
          outcome \in { "Ok", "Err" } :
         LET path == get_review_path(note_from_card(c)) IN
         /\ reviews' = IF outcome = "Ok"
                       THEN insert(reviews, path,
                                   log_of(reviews, path) \o to_vec(c))
                       ELSE reviews
         /\ ret' = Some([ op  |-> "review_card",
                          val |-> IF outcome = "Ok" THEN "Ok" ELSE "Err" ])
         /\ io' = outcome
         /\ calls' = IF outcome = "Ok"
                     THEN Append(calls, [ path |-> path, card |-> c,
                                          score |-> s ])
                     ELSE calls
    /\ UNCHANGED <<pc, scoreVars, dueVars, codecVars, files, clock, created>>

NextDeck ==
    \/ tick
    \/ create_note
    \/ update_note
    \/ list_notes
    \/ list_cards_to_review
    \/ review_card

SpecDeck == InitDeck /\ [][NextDeck]_vars

Init == InitDeck
Next == NextDeck
Spec == SpecDeck

----------------------------------------------------------------------------
(* Properties of the scheduler, under SpecScore *)
Scored(st, sc) ==
    pc = "scored" /\ card.state = st /\ score \in sc

Representable(t) == t >= 0 /\ t <= MAX_UTC

\* C1 as stated: a New card scored Easy at any time `now` gives a Review with
\* state Graduated, interval 4, steps 0, due = now + 4 days and the card's
\* ease.
C1_NewEasy_AnyTime ==
    Scored("New", {"Easy"}) =>
        LET r == Unwrap(review) IN
        /\ r.state = "Graduated"
        /\ r.interval = 4
        /\ r.steps = 0
        /\ r.due = time + Duration_days(4)
        /\ r.ease = card.ease

\* C1 amended: a New card scored Easy gives a Review with state Graduated,
\* interval 4, steps 0 and the card's ease at every time `now`, and with
\* due = now + 4 days whenever now + 4 days is a representable timestamp.
C1_NewEasy ==
    Scored("New", {"Easy"}) =>
        LET r == Unwrap(review) IN
        /\ r.state = "Graduated"
        /\ r.interval = 4
        /\ r.steps = 0
        /\ r.ease = card.ease
        /\ Representable(time + Duration_days(4))
               => r.due = time + Duration_days(4)

C1_Witness ==
    /\ Scored("New", {"Easy"})
    /\ card.steps > 0 /\ card.interval # 4 /\ card.due # None
    /\ Unwrap(review).due = time + Duration_days(4)
    /\ Unwrap(review).steps = 0 /\ Unwrap(review).interval = 4

\* C2 as stated: a New card scored Again or Hard at any time `now` gives a
\* Review with state New, steps 2, due = now + 1 minute and the card's
\* interval and ease.
C2_NewAgainHard_AnyTime ==
    Scored("New", {"Again", "Hard"}) =>
        LET r == Unwrap(review) IN
        /\ r.state = "New"
        /\ r.steps = 2
        /\ r.due = time + Duration_minutes(1)
        /\ r.interval = card.interval
        /\ r.ease = card.ease

\* C2 amended: a New card scored Again or Hard gives a Review with state
\* New, steps 2 and the card's interval and ease at every time `now`, and
\* with due = now + 1 minute whenever now + 1 minute is representable.
C2_NewAgainHard ==
    Scored("New", {"Again", "Hard"}) =>
        LET r == Unwrap(review) IN
        /\ r.state = "New"
        /\ r.steps = 2
        /\ r.interval = card.interval
        /\ r.ease = card.ease
        /\ Representable(time + Duration_minutes(1))
               => r.due = time + Duration_minutes(1)

C2_Witness ==
    /\ Scored("New", {"Hard"})
    /\ card.steps = 3
    /\ Unwrap(review).steps = 2
    /\ Unwrap(review).due = time + Duration_minutes(1)

\* C3 as stated: a New card scored Good at any time `now`: with steps <= 1
\* the Review is Graduated, steps 0, due = now + 1 day; with steps > 1 it is
\* New, steps one less, due = now + 1 minute; interval and ease are the
\* card's and steps is never negative.
C3_NewGood_AnyTime ==
    Scored("New", {"Good"}) =>
        LET r == Unwrap(review) IN
        /\ card.steps <= 1 => /\ r.state = "Graduated"
                              /\ r.steps = 0
                              /\ r.due = time + Duration_days(1)
        /\ card.steps > 1 => /\ r.state = "New"
                             /\ r.steps = card.steps - 1
                             /\ r.due = time + Duration_minutes(1)
        /\ r.interval = card.interval
        /\ r.ease = card.ease
        /\ r.steps >= 0

\* C3 amended: as C3, with each due stated only when the sum (now + 1 day,
\* now + 1 minute) is a representable timestamp.
C3_NewGood ==
    Scored("New", {"Good"}) =>
        LET r == Unwrap(review) IN
        /\ card.steps <= 1 =>
              /\ r.state = "Graduated"
              /\ r.steps = 0
              /\ Representable(time + Duration_days(1))
                     => r.due = time + Duration_days(1)
        /\ card.steps > 1 =>
              /\ r.state = "New"
              /\ r.steps = card.steps - 1
              /\ Representable(time + Duration_minutes(1))
                     => r.due = time + Duration_minutes(1)
        /\ r.interval = card.interval
        /\ r.ease = card.ease
        /\ r.steps >= 0

C3_Witness ==
    /\ Scored("New", {"Good"})
    /\ card.steps = 2
    /\ Unwrap(review).state = "New"
    /\ Unwrap(review).steps = 1
    /\ Unwrap(review).due = time + Duration_minutes(1)

\* C10: a card that is not New, scored with any score, gives a Review whose
\* state, interval and steps are the card's.
C10_PassThrough ==
    (pc = "scored" /\ card.state # "New") =>
        LET r == Unwrap(review) IN
        /\ r.state = card.state
        /\ r.interval = card.interval
        /\ r.steps = card.steps

----------------------------------------------------------------------------
(* Property of the due filter, under SpecDue *)

\* C5: the cards kept are all and only the given cards whose due is absent
\* or strictly earlier than now: due = none is kept, due in the past is
\* kept, due now or in the future is dropped.
C5_DueFilter ==
    pc = "filtered" =>
        /\ due_cards \subseteq cards
        /\ \A x \in cards :
              /\ x.due = None => x \in due_cards
              /\ (x.due # None /\ Unwrap(x.due) < time) => x \in due_cards
              /\ (x.due # None /\ Unwrap(x.due) >= time) => x \notin due_cards

C5_Witness ==
    /\ pc = "filtered"
    /\ \E x, y \in cards :
          /\ x.due # None /\ Unwrap(x.due) < time /\ x \in due_cards
          /\ y.due # None /\ Unwrap(y.due) > time /\ y \notin due_cards
          /\ x.note_id = y.note_id

----------------------------------------------------------------------------
(* Property of the codec, under SpecCodec *)
StartsWithHeading(line) ==
    Len(line) >= 2 /\ line[1] = "#" /\ line[2] = " "

\* C6, on the mappings trimming leaves alone: when the keys are non-empty
\* and every body is free of leading and trailing whitespace and has no line
\* starting with "# ", parsing the serialized mapping gives the mapping
\* back, whatever the order of serialization.
C6_RoundTrip ==
    ( /\ pc = "parsed"
      /\ \A k \in DOMAIN fields :
            /\ k # << >>
            /\ trim(fields[k]) = fields[k]
            /\ \A i \in DOMAIN split(fields[k]) :
                  ~ StartsWithHeading(split(fields[k])[i]) )
    => Unwrap(parsed) = fields

----------------------------------------------------------------------------
(* Properties of the deck, under SpecDeck *)
Returned(op) == ret # None /\ Unwrap(ret).op = op

\* C4: each review log holds, oldest first, exactly one Review per
\* review_card call done on it, the Review score_card gives for the call's
\* card and score (at some time), and nothing else.
IsReviewOf(rec, call) ==
    \E t \in Times, utc_now \in Times :
        LET r == score_card(call.card, t, call.score, utc_now) IN
        DOMAIN rec = DOMAIN r /\ rec = r

CallsOn(path) == SelectSeq(calls, LAMBDA c : c.path = path)

C4_ReviewLog ==
    \A path \in DOMAIN reviews :
        /\ Len(reviews[path]) = Len(CallsOn(path))
        /\ \A i \in DOMAIN reviews[path] :
              IsReviewOf(reviews[path][i], CallsOn(path)[i])

\* C7: every note create_note stored is listed by list_notes with exactly
\* its note_id and its template.
C7_PathReversible ==
    (Returned("list_notes") /\ io = "Ok") =>
        \A i \in DOMAIN created :
            \E n \in Unwrap(ret).val :
                n.note_id = created[i].note_id
                    /\ n.template = created[i].template

\* C8: the notes create_note made have pairwise different note_ids, so the
\* deck holds a file for each.
C8_UniqueIds ==
    /\ \A i, j \in DOMAIN created :
          i # j => created[i].note_id # created[j].note_id
    /\ Cardinality(DOMAIN files) >= Len(created)

\* C9: when the file write fails, create_note and update_note return
\* something other than what they return when it succeeds.
C9_WriteFailureReported ==
    ((Returned("create_note") \/ Returned("update_note")) /\ io = "Err") =>
        Unwrap(ret).val # write_result("Ok")

----------------------------------------------------------------------------
(* Overflow of the due addition, under SpecScore *)

\* the offset score_card adds to `time` for a New card
DueOffset(c, s) ==
    CASE s = "Easy" -> Duration_days(4)
      [] s \in {"Again", "Hard"} -> Duration_minutes(1)
      [] s = "Good" -> IF c.steps <= 1 THEN Duration_days(1)
                       ELSE Duration_minutes(1)

\* C11: when a New card that has a due value is scored and time + offset is
\* not a representable timestamp, the Review's due is the card's previous
\* due (so the Review is a function of card, time and score alone).
C11_OverflowKeepsDue ==
    ( /\ pc = "scored"
      /\ card.state = "New"
      /\ card.due # None
      /\ ~ Representable(time + DueOffset(card, score)) )
    => Unwrap(review).due = Unwrap(card.due)

====
